---- MODULE Spec2Model ----
(***************************************************************************)
(* BallotBot (src/BallotBot/main.py): a moderation bot for a community     *)
(* vote.  Two threads share the store file known_users.json under          *)
(* user_data_lock: the comment worker (monitor_comments, with              *)
(* has_prior_activity) and the terminal worker (monitor_terminal).         *)
(*                                                                         *)
(* Text is modelled as a sequence of one-character strings, so that        *)
(* str.strip, str.lower, str.startswith and str.split act on characters.   *)
(* The store file is either absent, present but not parseable as JSON      *)
(* (an empty or truncated file included), or the JSON text of a store: the *)
(* only JSON this program ever writes.                                     *)
(***************************************************************************)
EXTENDS Naturals, Integers, Sequences, FiniteSets, TLC

VARIABLES
  file,       \* known_users.json: [kind, data]
  lock,       \* user_data_lock: "free", or the worker holding it
  alive,      \* FALSE once os._exit(0) has ended the process
  tz,         \* the host's local UTC offset in seconds (datetime.fromtimestamp)
  disk,       \* environment: "faulty" if open() and json.dump of a save may raise, else "reliable"
  cpc,        \* comment worker: position in monitor_comments / has_prior_activity
  cmt,        \* comment worker: the comment being processed
  cloaded,    \* comment worker: what load_user_data() returned in this transaction
  cdata,      \* comment worker: the local `data` of the transaction in flight
  hpa,        \* has_prior_activity: cache verdict, queries made, return value
  obs,        \* what has happened to the current comment (removal, mail, branch)
  tpc,        \* terminal worker: position in monitor_terminal
  tuser,      \* terminal worker: the local `username`
  tloaded,    \* terminal worker: what load_user_data() returned
  tdata,      \* terminal worker: the local `data`
  serial,     \* history: the store obtained by applying the committed transactions in commit order
  overridden  \* history: names the whitelist command took off the blacklist, store not lost since

vars == <<file, lock, alive, tz, disk, cpc, cmt, cloaded, cdata, hpa, obs,
          tpc, tuser, tloaded, tdata, serial, overridden>>

cvars == <<cpc, cmt, cloaded, cdata, hpa, obs>>
tvars == <<tpc, tuser, tloaded, tdata>>

---------------------------------------------------------------------------
(* Bounds *)

\* longest comment history and longest submission history an account has
MaxItems == 2

---------------------------------------------------------------------------
(* Text *)

SP == " "

LowerOf ==
  [A |-> "a", B |-> "b", D |-> "d", E |-> "e", H |-> "h", I |-> "i", L |-> "l",
   M |-> "m", N |-> "n", O |-> "o", R |-> "r", S |-> "s", T |-> "t", W |-> "w",
   X |-> "x", Y |-> "y"]

\* str.lower, one character
LowerChar(c) == IF c \in DOMAIN LowerOf THEN LowerOf[c] ELSE c

\* str.lower
Lower(s) == [i \in 1..Len(s) |-> LowerChar(s[i])]

RECURSIVE LStrip(_)
LStrip(s) == IF s # <<>> /\ Head(s) = SP THEN LStrip(Tail(s)) ELSE s

RECURSIVE RStrip(_)
RStrip(s) == IF s # <<>> /\ s[Len(s)] = SP THEN RStrip(SubSeq(s, 1, Len(s) - 1)) ELSE s

\* str.strip
Strip(s) == RStrip(LStrip(s))

\* str.startswith
StartsWith(s, p) == Len(s) >= Len(p) /\ SubSeq(s, 1, Len(p)) = p

\* s.split(' ', 1)[1]: what follows the first space of s (s holds one)
AfterFirstSpace(s) ==
  LET i == CHOOSE k \in 1..Len(s) : s[k] = SP /\ \A j \in 1..(k - 1) : s[j] # SP
  IN  SubSeq(s, i + 1, Len(s))

---------------------------------------------------------------------------
(* Program constants *)

SUBREDDIT_NAME == <<"d","n","d","h","o","m","e","b","r","e","w">>

VALID_VOTES == { <<"y","e","s">>, <<"n","o">> }

\* datetime(2025, 4, 20, tzinfo=timezone.utc) as seconds since the epoch
CUTOFF_DATE == 1745107200

ACTIVITY_DEPTH_CHECK == 100

\* the post main() hands to monitor_comments
TargetPost == "p1"

---------------------------------------------------------------------------
(* The store and its file *)

NoVotes == [u \in {} |-> <<>>]

EmptyStore == [whitelist |-> <<>>, blacklist |-> <<>>, votes |-> NoVotes]

Missing == [kind |-> "missing", data |-> EmptyStore]

\* a file json.load cannot parse: empty, truncated, or not JSON at all
Unparseable == [kind |-> "unparseable", data |-> EmptyStore]

JsonFile(d) == [kind |-> "json", data |-> d]

Elems(s) == {s[i] : i \in 1..Len(s)}

\* variant: the head of the list is dropped, whatever x is (pop(0))
ListRemove_DropsHead(s, x) == IF s = <<>> THEN <<>> ELSE Tail(s)

\* list.remove(x): drops the first occurrence of x
RECURSIVE ListRemove(_, _)
ListRemove(s, x) ==
  IF s = <<>> THEN <<>>
  ELSE IF Head(s) = x THEN Tail(s)
  ELSE <<Head(s)>> \o ListRemove(Tail(s), x)

\* variant: an unreadable file is swallowed without a log line
load_user_data_Silent(f) ==
  IF f.kind = "missing"
  THEN [data |-> EmptyStore, log |-> "not found"]
  ELSE IF f.kind = "json"
       THEN [data |-> f.data, log |-> "none"]
       ELSE [data |-> EmptyStore, log |-> "none"]

\* load_user_data(): the store returned and the line logged
load_user_data(f) ==
  IF f.kind = "missing"
  THEN [data |-> EmptyStore, log |-> "not found"]
  ELSE IF f.kind = "json"
       THEN [data |-> f.data, log |-> "none"]
       ELSE [data |-> EmptyStore, log |-> "error loading"]

NotLoaded == [data |-> EmptyStore, log |-> "none"]

\* save_user_data, open(USER_CACHE_FILE, 'w'): on success the file is truncated
save_open(f, ok) == IF ok THEN Unparseable ELSE f

\* variant: what is dumped is a store loaded afresh from the truncated file
save_dump_Reloads(f, d, ok) == IF ok THEN JsonFile(load_user_data(f).data) ELSE f

\* save_user_data, json.dump: on failure the file stays as the write left it
save_dump(f, d, ok) == IF ok THEN JsonFile(d) ELSE f

\* whether a call of open() or json.dump in save_user_data succeeds
SaveOutcomes == IF disk = "reliable" THEN {TRUE} ELSE BOOLEAN

\* the store a reader of the file gets now
Persisted == load_user_data(file).data

---------------------------------------------------------------------------
(* Store updates made by the handlers *)

\* variant: the append to the whitelist is forgotten
AddWhitelist_Forgets(d, name) == d

\* data['whitelist'].append(name)
AddWhitelist(d, name) == [d EXCEPT !.whitelist = Append(@, name)]

\* data['blacklist'].append(name)
AddBlacklist(d, name) == [d EXCEPT !.blacklist = Append(@, name)]

\* variant: a vote already present is kept (setdefault)
RecordVote_KeepsFirst(d, username, content) ==
  IF username \in DOMAIN d.votes THEN d
  ELSE [d EXCEPT !.votes = [u \in (DOMAIN @) \cup {username} |->
                              IF u = username THEN content ELSE @[u]]]

\* data['votes'][username] = content
RecordVote(d, username, content) ==
  [d EXCEPT !.votes = [u \in (DOMAIN @) \cup {username} |->
                         IF u = username THEN content ELSE @[u]]]

\* variant: the command adds to the whitelist and leaves the blacklist alone
WhitelistCommand_KeepsBlacklisted(d, username) ==
  IF username \notin Elems(d.whitelist)
  THEN [d EXCEPT !.whitelist = Append(@, username)] ELSE d

\* the body of the `whitelist <username>` command between load and save
WhitelistCommand(d, username) ==
  LET d1 == IF username \notin Elems(d.whitelist)
            THEN [d EXCEPT !.whitelist = Append(@, username)] ELSE d
  IN  IF username \in Elems(d1.blacklist)
      THEN [d1 EXCEPT !.blacklist = ListRemove(@, username)] ELSE d1

---------------------------------------------------------------------------
(* Account history, as the forum returns it *)

TargetDisplay == <<"D","n","D","H","o","m","e","b","r","e","w">>
OtherDisplay == <<"D","n","D">>

\* one comment or submission of an account: its subreddit and created_utc
ItemSet == [sub : {TargetDisplay, OtherDisplay},
            created : {CUTOFF_DATE - 1, CUTOFF_DATE}]

NoItem == [sub |-> <<>>, created |-> 0]

\* datetime.fromtimestamp(ts).replace(tzinfo=timezone.utc): fromtimestamp gives
\* the host's local wall-clock time, which is then labelled as UTC
created_time(ts) == ts + tz

\* the test of lines 79 and 87
Qualifies(it) ==
  /\ Lower(it.sub) = SUBREDDIT_NAME
  /\ created_time(it.created) < CUTOFF_DATE

---------------------------------------------------------------------------
(* Inputs *)

AuthorNames == { <<"A","l">>, <<"b","o">> }

NoAuthor == [present |-> FALSE, name |-> <<>>]

Authors == {[present |-> TRUE, name |-> n] : n \in AuthorNames} \cup {NoAuthor}

Bodies == { <<" ","Y","E","S"," ">>, <<"n","o">>, <<"m","a","y","b","e">> }

\* comments of the stream: on the target post by each author with each body,
\* and one on another post
Comments ==
  [author : Authors, body : Bodies, submission : {"p1"}]
  \cup {[author |-> [present |-> TRUE, name |-> <<"b","o">>],
         body |-> <<"n","o">>, submission |-> "p2"]}

NoComment == [author |-> NoAuthor, body |-> <<>>, submission |-> "none"]

WHITELIST_ == <<"w","h","i","t","e","l","i","s","t"," ">>
EXIT == <<"e","x","i","t">>

\* lines typed at the terminal
Lines ==
  { WHITELIST_ \o <<"A","l">>,
    <<" ","W","H","I","T","E","L","I","S","T"," "," ","b","o"," ">>,
    <<"w","h","i","t","e","l","i","s","t">>,
    <<" ","E","x","i","t">> }

NoHpa == [hit |-> "none", ret |-> FALSE, queried |-> {}, via |-> "none",
          item |-> NoItem, k |-> 0]

NoObs == [branch |-> "none", raised |-> FALSE, removed |-> FALSE, mail |-> "none",
          eligible |-> "unknown", saved |-> FALSE, replaced |-> <<>>]

TimeZones == {0 - 18000, 0, 3600}

---------------------------------------------------------------------------
(* Initial state: the process has just started; the store file is whatever *)
(* is on disk (nothing, an unreadable file, or an empty store).            *)

InitWorkers ==
  /\ lock = "free"
  /\ alive = TRUE
  /\ tz \in TimeZones
  /\ cpc = "idle"
  /\ cmt = NoComment
  /\ cloaded = NotLoaded
  /\ cdata = EmptyStore
  /\ hpa = NoHpa
  /\ obs = NoObs
  /\ tpc = "idle"
  /\ tuser = <<>>
  /\ tloaded = NotLoaded
  /\ tdata = EmptyStore
  /\ serial = EmptyStore
  /\ overridden = {}

Init ==
  /\ file \in {Missing, Unparseable, JsonFile(EmptyStore)}
  /\ disk = "faulty"
  /\ InitWorkers

\* the same start on a disk where the store file can be read and saves succeed
InitReliable ==
  /\ file \in {Missing, JsonFile(EmptyStore)}
  /\ disk = "reliable"
  /\ InitWorkers

---------------------------------------------------------------------------
(* Comment worker: monitor_comments and has_prior_activity *)

\* locals of the comment in hand
\* line 106
Username == cmt.author.name

\* variant: the body is lower-cased but not stripped
Content_NoStrip == Lower(cmt.body)

\* line 107
Content == Lower(Strip(cmt.body))

\* line 65
Name == Lower(cmt.author.name)

\* variant: no handler around the body of the loop, the error ends the worker
NextComment_NoHandler ==
  /\ alive /\ cpc = "idle"
  /\ \E c \in Comments :
       /\ cmt' = c
       /\ IF c.submission # TargetPost
          THEN cpc' = "idle" /\ obs' = [NoObs EXCEPT !.branch = "ignored"]
          ELSE IF ~c.author.present
               THEN cpc' = "stopped" /\ obs' = [NoObs EXCEPT !.raised = TRUE]
               ELSE cpc' = "classify" /\ obs' = NoObs
  /\ hpa' = NoHpa
  /\ UNCHANGED <<cloaded, cdata>>
  /\ UNCHANGED <<file, lock, alive, tz, disk, serial, overridden>>
  /\ UNCHANGED tvars

\* lines 102-107: the stream yields a comment; comments on other posts are
\* skipped; author.name raises on a deleted account (author is None), which
\* the handler of line 139 logs
NextComment ==
  /\ alive /\ cpc = "idle"
  /\ \E c \in Comments :
       /\ cmt' = c
       /\ IF c.submission # TargetPost
          THEN cpc' = "idle" /\ obs' = [NoObs EXCEPT !.branch = "ignored"]
          ELSE IF ~c.author.present
               THEN cpc' = "idle" /\ obs' = [NoObs EXCEPT !.raised = TRUE]
               ELSE cpc' = "classify" /\ obs' = NoObs
  /\ hpa' = NoHpa
  /\ UNCHANGED <<cloaded, cdata>>
  /\ UNCHANGED <<file, lock, alive, tz, disk, serial, overridden>>
  /\ UNCHANGED tvars

\* variant: only the blacklist is consulted
cache_verdict_BlacklistOnly(d, name) ==
  IF name \in Elems(d.blacklist) THEN "blacklist" ELSE "miss"

\* variant: only the whitelist is consulted
cache_verdict_WhitelistOnly(d, name) ==
  IF name \in Elems(d.whitelist) THEN "whitelist" ELSE "miss"

\* lines 70-73: the cache is consulted before any request is made
cache_verdict(d, name) ==
  IF name \in Elems(d.whitelist) THEN "whitelist"
  ELSE IF name \in Elems(d.blacklist) THEN "blacklist"
  ELSE "miss"

\* variant: on a miss both listings are requested before either is read
HpaEnter_FetchesBoth ==
  /\ alive /\ cpc = "classify"
  /\ IF ~cmt.author.present
     THEN /\ hpa' = [NoHpa EXCEPT !.hit = "absent", !.ret = FALSE]
          /\ cpc' = "branch"
          /\ UNCHANGED <<lock, cloaded, cdata>>
     ELSE /\ lock = "free"
          /\ LET ld == load_user_data(file)
                 v == cache_verdict(ld.data, Name)
             IN  IF v = "miss"
                 THEN /\ hpa' = [NoHpa EXCEPT !.hit = v,
                                              !.queried = {"comments", "submissions"}]
                      /\ cpc' = "hpa_comments"
                      /\ lock' = "cw"
                      /\ cloaded' = ld
                      /\ cdata' = ld.data
                 ELSE /\ hpa' = [NoHpa EXCEPT !.hit = v, !.ret = (v = "whitelist")]
                      /\ cpc' = "branch"
                      /\ UNCHANGED <<lock, cloaded, cdata>>
  /\ UNCHANGED <<cmt, obs>>
  /\ UNCHANGED <<file, alive, tz, disk, serial, overridden>>
  /\ UNCHANGED tvars

\* lines 61-73: has_prior_activity up to the cache verdict.  A hit returns at
\* once and the `with` block releases the lock; a miss keeps it for the query.
HpaEnter ==
  /\ alive /\ cpc = "classify"
  /\ IF ~cmt.author.present
     THEN /\ hpa' = [NoHpa EXCEPT !.hit = "absent", !.ret = FALSE]
          /\ cpc' = "branch"
          /\ UNCHANGED <<lock, cloaded, cdata>>
     ELSE /\ lock = "free"
          /\ LET ld == load_user_data(file)
                 v == cache_verdict(ld.data, Name)
             IN  IF v = "miss"
                 THEN /\ hpa' = [NoHpa EXCEPT !.hit = v, !.queried = {"comments"}]
                      /\ cpc' = "hpa_comments"
                      /\ lock' = "cw"
                      /\ cloaded' = ld
                      /\ cdata' = ld.data
                 ELSE /\ hpa' = [NoHpa EXCEPT !.hit = v, !.ret = (v = "whitelist")]
                      /\ cpc' = "branch"
                      /\ UNCHANGED <<lock, cloaded, cdata>>
  /\ UNCHANGED <<cmt, obs>>
  /\ UNCHANGED <<file, alive, tz, disk, serial, overridden>>
  /\ UNCHANGED tvars

\* lines 76-83: one turn of the loop over author.comments.new(limit=...).  The
\* listing yields an item, or is exhausted, or raises (lines 92-98)
HpaComment ==
  /\ alive /\ cpc = "hpa_comments"
  /\ \/ /\ hpa.k < ACTIVITY_DEPTH_CHECK /\ hpa.k < MaxItems
        /\ \E it \in ItemSet :
             IF Qualifies(it)
             THEN /\ cdata' = AddWhitelist(cdata, Name)
                  /\ hpa' = [hpa EXCEPT !.ret = TRUE, !.via = "comment", !.item = it]
                  /\ cpc' = "hpa_save"
             ELSE /\ hpa' = [hpa EXCEPT !.item = it, !.k = @ + 1]
                  /\ UNCHANGED <<cdata, cpc>>
     \/ /\ hpa' = [hpa EXCEPT !.item = NoItem, !.k = 0,
                              !.queried = @ \cup {"submissions"}]
        /\ cpc' = "hpa_posts"
        /\ UNCHANGED cdata
     \/ /\ cdata' = AddBlacklist(cdata, Name)
        /\ hpa' = [hpa EXCEPT !.ret = FALSE, !.via = "error", !.item = NoItem]
        /\ cpc' = "hpa_save"
  /\ UNCHANGED <<cmt, cloaded, obs>>
  /\ UNCHANGED <<file, lock, alive, tz, disk, serial, overridden>>
  /\ UNCHANGED tvars

\* lines 85-98: one turn of the loop over author.submissions.new(limit=...)
HpaPost ==
  /\ alive /\ cpc = "hpa_posts"
  /\ \/ /\ hpa.k < ACTIVITY_DEPTH_CHECK /\ hpa.k < MaxItems
        /\ \E it \in ItemSet :
             IF Qualifies(it)
             THEN /\ cdata' = AddWhitelist(cdata, Name)
                  /\ hpa' = [hpa EXCEPT !.ret = TRUE, !.via = "post", !.item = it]
                  /\ cpc' = "hpa_save"
             ELSE /\ hpa' = [hpa EXCEPT !.item = it, !.k = @ + 1]
                  /\ UNCHANGED <<cdata, cpc>>
     \/ /\ cdata' = AddBlacklist(cdata, Name)
        /\ hpa' = [hpa EXCEPT !.ret = FALSE, !.via = "nothing", !.item = NoItem]
        /\ cpc' = "hpa_save"
     \/ /\ cdata' = AddBlacklist(cdata, Name)
        /\ hpa' = [hpa EXCEPT !.ret = FALSE, !.via = "error", !.item = NoItem]
        /\ cpc' = "hpa_save"
  /\ UNCHANGED <<cmt, cloaded, obs>>
  /\ UNCHANGED <<file, lock, alive, tz, disk, serial, overridden>>
  /\ UNCHANGED tvars

\* variant: the return after a failed save leaves the lock held
HpaSaveOpen_KeepsLock ==
  /\ alive /\ cpc = "hpa_save"
  /\ \E ok \in SaveOutcomes :
       /\ file' = save_open(file, ok)
       /\ IF ok
          THEN cpc' = "hpa_write" /\ UNCHANGED <<lock, cloaded, cdata>>
          ELSE /\ cpc' = "branch" /\ UNCHANGED lock
               /\ cloaded' = NotLoaded /\ cdata' = EmptyStore
  /\ UNCHANGED <<cmt, hpa, obs>>
  /\ UNCHANGED <<alive, tz, disk, serial, overridden>>
  /\ UNCHANGED tvars

\* lines 81/89/97, save_user_data up to open(): if open() raises, the error is
\* logged, the function returns and the lock is released
HpaSaveOpen ==
  /\ alive /\ cpc = "hpa_save"
  /\ \E ok \in SaveOutcomes :
       /\ file' = save_open(file, ok)
       /\ IF ok
          THEN cpc' = "hpa_write" /\ UNCHANGED <<lock, cloaded, cdata>>
          ELSE /\ cpc' = "branch" /\ lock' = "free"
               /\ cloaded' = NotLoaded /\ cdata' = EmptyStore
  /\ UNCHANGED <<cmt, hpa, obs>>
  /\ UNCHANGED <<alive, tz, disk, serial, overridden>>
  /\ UNCHANGED tvars

\* json.dump of save_user_data, then the log line, the return and the release
HpaSaveDump ==
  /\ alive /\ cpc = "hpa_write"
  /\ \E ok \in SaveOutcomes :
       /\ file' = save_dump(file, cdata, ok)
       /\ serial' = IF ~ok THEN EmptyStore
                    ELSE IF hpa.ret THEN AddWhitelist(serial, Name)
                                    ELSE AddBlacklist(serial, Name)
       /\ overridden' = IF ok THEN overridden ELSE {}
  /\ cpc' = "branch" /\ lock' = "free"
  /\ cloaded' = NotLoaded /\ cdata' = EmptyStore
  /\ UNCHANGED <<cmt, hpa, obs>>
  /\ UNCHANGED <<alive, tz, disk>>
  /\ UNCHANGED tvars

\* send_modmail: the message is delivered, or the failure is logged
send_modmail(delivered, subject) == IF delivered THEN subject ELSE "failed"

\* variant: the vote text is validated before eligibility
branch_of_ContentFirst(eligible, content) ==
  IF content \notin VALID_VOTES THEN "InvalidVote"
  ELSE IF ~eligible THEN "NotEligible"
  ELSE "VoteRecorded"

\* lines 108, 117, 126: the branch a comment takes
branch_of(eligible, content) ==
  IF ~eligible THEN "NotEligible"
  ELSE IF content \notin VALID_VOTES THEN "InvalidVote"
  ELSE "VoteRecorded"

\* variant: both rejections send the not-eligible message
notice_of_SameText(br) == "removed: not a known user"

\* lines 112-116, 121-125: the message a rejection sends to the author
notice_of(br) ==
  IF br = "NotEligible" THEN "removed: not a known user"
  ELSE "removed: invalid vote"

\* lines 108-128: the three branches; comment.mod.remove() may raise, which
\* the handler of line 139 logs
Branch ==
  /\ alive /\ cpc = "branch"
  /\ \E removes \in BOOLEAN, delivered \in BOOLEAN :
       LET br == branch_of(hpa.ret, Content)
           o == [obs EXCEPT !.branch = br,
                            !.eligible = IF hpa.ret THEN "yes" ELSE "no"]
       IN  IF ~removes
           THEN cpc' = "idle" /\ obs' = [o EXCEPT !.raised = TRUE]
           ELSE IF br = "VoteRecorded"
           THEN cpc' = "vote" /\ obs' = [o EXCEPT !.removed = TRUE]
           ELSE /\ cpc' = "idle"
                /\ obs' = [o EXCEPT !.removed = TRUE,
                             !.mail = send_modmail(delivered, notice_of(br))]
  /\ hpa' = NoHpa
  /\ UNCHANGED <<cmt, cloaded, cdata>>
  /\ UNCHANGED <<file, lock, alive, tz, disk, serial, overridden>>
  /\ UNCHANGED tvars

\* lines 129-131: the vote transaction takes the lock, loads and sets the vote
VoteEnter ==
  /\ alive /\ cpc = "vote"
  /\ lock = "free"
  /\ lock' = "cw"
  /\ LET ld == load_user_data(file)
     IN  /\ cloaded' = ld
         /\ cdata' = RecordVote(ld.data, Username, Content)
  /\ cpc' = "vote_save"
  /\ UNCHANGED <<cmt, hpa, obs>>
  /\ UNCHANGED <<file, alive, tz, disk, serial, overridden>>
  /\ UNCHANGED tvars

\* line 132 up to open(), and on its failure lines 133-138
VoteSaveOpen ==
  /\ alive /\ cpc = "vote_save"
  /\ \E ok \in SaveOutcomes, delivered \in BOOLEAN :
       /\ file' = save_open(file, ok)
       /\ IF ok
          THEN cpc' = "vote_write" /\ UNCHANGED <<lock, cloaded, cdata, obs>>
          ELSE /\ cpc' = "idle" /\ lock' = "free"
               /\ cloaded' = NotLoaded /\ cdata' = EmptyStore
               /\ obs' = [obs EXCEPT !.mail = send_modmail(delivered, "vote recorded")]
  /\ UNCHANGED <<cmt, hpa>>
  /\ UNCHANGED <<alive, tz, disk, serial, overridden>>
  /\ UNCHANGED tvars

\* variant: the vote transaction ends without releasing the lock
VoteSaveDump_KeepsLock ==
  /\ alive /\ cpc = "vote_write"
  /\ \E ok \in SaveOutcomes, delivered \in BOOLEAN :
       /\ file' = save_dump(file, cdata, ok)
       /\ serial' = IF ok THEN RecordVote(serial, Username, Content) ELSE EmptyStore
       /\ overridden' = IF ok THEN overridden ELSE {}
       /\ obs' = [obs EXCEPT !.mail = send_modmail(delivered, "vote recorded"),
                             !.saved = ok,
                             !.replaced = IF ok /\ Username \in DOMAIN cloaded.data.votes
                                          THEN cloaded.data.votes[Username] ELSE <<>>]
  /\ cpc' = "idle" /\ UNCHANGED lock
  /\ cloaded' = NotLoaded /\ cdata' = EmptyStore
  /\ UNCHANGED <<cmt, hpa>>
  /\ UNCHANGED <<alive, tz, disk>>
  /\ UNCHANGED tvars

\* json.dump of line 132, then lines 133-138 and the release of the lock
VoteSaveDump ==
  /\ alive /\ cpc = "vote_write"
  /\ \E ok \in SaveOutcomes, delivered \in BOOLEAN :
       /\ file' = save_dump(file, cdata, ok)
       /\ serial' = IF ok THEN RecordVote(serial, Username, Content) ELSE EmptyStore
       /\ overridden' = IF ok THEN overridden ELSE {}
       /\ obs' = [obs EXCEPT !.mail = send_modmail(delivered, "vote recorded"),
                             !.saved = ok,
                             !.replaced = IF ok /\ Username \in DOMAIN cloaded.data.votes
                                          THEN cloaded.data.votes[Username] ELSE <<>>]
  /\ cpc' = "idle" /\ lock' = "free"
  /\ cloaded' = NotLoaded /\ cdata' = EmptyStore
  /\ UNCHANGED <<cmt, hpa>>
  /\ UNCHANGED <<alive, tz, disk>>
  /\ UNCHANGED tvars

---------------------------------------------------------------------------
(* Terminal worker: monitor_terminal *)

\* lines 146-149 and 165-167: one line is read; `whitelist <username>` goes on
\* to the lock, `exit` ends the process, anything else is dropped
ReadLine ==
  /\ alive /\ tpc = "idle"
  /\ \E line \in Lines :
       LET cmd == Lower(Strip(line))
       IN  IF StartsWith(cmd, WHITELIST_)
           THEN /\ tuser' = Strip(AfterFirstSpace(cmd))
                /\ tpc' = "wl"
                /\ UNCHANGED alive
           ELSE IF cmd = EXIT
           THEN alive' = FALSE /\ UNCHANGED <<tuser, tpc>>
           ELSE UNCHANGED <<alive, tuser, tpc>>
  /\ UNCHANGED <<tloaded, tdata>>
  /\ UNCHANGED <<file, lock, tz, disk, serial, overridden>>
  /\ UNCHANGED cvars

\* variant: the command runs without taking user_data_lock
WlEnter_NoLock ==
  /\ alive /\ tpc = "wl"
  /\ lock' = "tw"
  /\ LET ld == load_user_data(file)
     IN  /\ tloaded' = ld
         /\ tdata' = WhitelistCommand(ld.data, tuser)
  /\ tpc' = "wl_save"
  /\ UNCHANGED tuser
  /\ UNCHANGED <<file, alive, tz, disk, serial, overridden>>
  /\ UNCHANGED cvars

\* lines 150-157
WlEnter ==
  /\ alive /\ tpc = "wl"
  /\ lock = "free"
  /\ lock' = "tw"
  /\ LET ld == load_user_data(file)
     IN  /\ tloaded' = ld
         /\ tdata' = WhitelistCommand(ld.data, tuser)
  /\ tpc' = "wl_save"
  /\ UNCHANGED tuser
  /\ UNCHANGED <<file, alive, tz, disk, serial, overridden>>
  /\ UNCHANGED cvars

\* line 158 up to open(); if open() raises, the error is logged and lines
\* 159-163 follow: send_modmail (its outcome changes nothing the program reads)
\* and the release of the lock
WlSaveOpen ==
  /\ alive /\ tpc = "wl_save"
  /\ \E ok \in SaveOutcomes :
       /\ file' = save_open(file, ok)
       /\ IF ok
          THEN tpc' = "wl_write" /\ UNCHANGED <<lock, tuser, tloaded, tdata>>
          ELSE /\ tpc' = "idle" /\ lock' = "free" /\ tuser' = <<>>
               /\ tloaded' = NotLoaded /\ tdata' = EmptyStore
  /\ UNCHANGED <<alive, tz, disk, serial, overridden>>
  /\ UNCHANGED cvars

\* json.dump of line 158, then lines 159-163 and the release of the lock
WlSaveDump ==
  /\ alive /\ tpc = "wl_write"
  /\ \E ok \in SaveOutcomes :
       /\ file' = save_dump(file, tdata, ok)
       /\ serial' = IF ok THEN WhitelistCommand(serial, tuser) ELSE EmptyStore
       /\ overridden' = IF ~ok THEN {}
                        ELSE IF tuser \in Elems(tloaded.data.blacklist)
                             THEN overridden \cup {tuser} ELSE overridden
  /\ tpc' = "idle" /\ lock' = "free" /\ tuser' = <<>>
  /\ tloaded' = NotLoaded /\ tdata' = EmptyStore
  /\ UNCHANGED <<alive, tz, disk>>
  /\ UNCHANGED cvars

---------------------------------------------------------------------------

Next ==
  \/ NextComment
  \/ HpaEnter
  \/ HpaComment
  \/ HpaPost
  \/ HpaSaveOpen
  \/ HpaSaveDump
  \/ Branch
  \/ VoteEnter
  \/ VoteSaveOpen
  \/ VoteSaveDump
  \/ ReadLine
  \/ WlEnter
  \/ WlSaveOpen
  \/ WlSaveDump

Spec == Init /\ [][Next]_vars

\* the program where no load and no save of the store fails
SpecReliable == InitReliable /\ [][Next]_vars

\* the steps of each thread that wait for no input: a started thread that can
\* take a step eventually does (the comment stream and the terminal's input
\* are the environment's)
CommentWorker ==
  \/ HpaEnter \/ HpaComment \/ HpaPost \/ HpaSaveOpen \/ HpaSaveDump
  \/ Branch \/ VoteEnter \/ VoteSaveOpen \/ VoteSaveDump
TerminalWorker == WlEnter \/ WlSaveOpen \/ WlSaveDump

\* SpecReliable with both threads scheduled fairly; threading.Lock promises
\* no order among its waiters, so the fairness is weak
LiveSpec ==
  /\ InitReliable /\ [][Next]_vars
  /\ WF_vars(CommentWorker)
  /\ WF_vars(TerminalWorker)

---------------------------------------------------------------------------
(* Properties *)

WL(d) == Elems(d.whitelist)
BL(d) == Elems(d.blacklist)

\* a worker is between open() and the end of json.dump: the file is truncated
SaveInProgress == cpc \in {"hpa_write", "vote_write"} \/ tpc = "wl_write"

InTxnC == cpc \in {"hpa_comments", "hpa_posts", "hpa_save", "hpa_write",
                   "vote_save", "vote_write"}
InTxnT == tpc \in {"wl_save", "wl_write"}

\* the steps that return from has_prior_activity's cache check, write a
\* store, or leave the branch of monitor_comments
ClassifyStep == cpc = "classify" /\ cpc' # "classify"
BranchStep == cpc = "branch" /\ cpc' # "branch"
CommitC == cpc \in {"hpa_write", "vote_write"} /\ file'.kind = "json"
CommitT == tpc = "wl_write" /\ file'.kind = "json"

\* C1: in every reachable state the store a reader gets from the file has no
\* username in both the whitelist and the blacklist.
C1_ListsDisjoint == WL(Persisted) \cap BL(Persisted) = {}

\* C1 witness: both lists are in use and a whitelist command has taken a
\* blacklisted user off the blacklist.
C1_Witness ==
  /\ Persisted.whitelist # <<>> /\ Persisted.blacklist # <<>>
  /\ overridden # {}

\* C2: at most one load-mutate-save transaction is in flight, and whenever no
\* write is under way the persisted store is the result of applying the
\* committed transactions one after another, in the order they committed.
C2_Serializable ==
  /\ ~(InTxnC /\ InTxnT)
  /\ ~SaveInProgress => Persisted = serial

\* C2 witness: the terminal worker waits for the lock while the comment worker
\* is inside a transaction, and the store already holds the effects of a
\* whitelist command, a classification and a vote.
C2_Witness ==
  /\ InTxnC /\ lock = "cw" /\ tpc = "wl"
  /\ Persisted.votes # NoVotes
  /\ Len(Persisted.whitelist) = 2

\* C3: a classify call for a user who is in the persisted whitelist returns
\* true at once, with no history request; and no committed write, of any
\* transaction, drops a name from the whitelist it loaded.
C3_WhitelistSticks ==
  [][ /\ (ClassifyStep /\ Name \in WL(Persisted))
          => (cpc' = "branch" /\ hpa'.ret /\ hpa'.queried = {})
      /\ CommitC => WL(cloaded.data) \subseteq WL(file'.data)
      /\ CommitT => WL(tloaded.data) \subseteq WL(file'.data) ]_vars

\* C3 witness: a classify call answered from the whitelist, after votes were
\* recorded in between.
C3_Witness ==
  /\ cpc = "branch" /\ hpa.hit = "whitelist" /\ hpa.ret /\ hpa.queried = {}
  /\ Persisted.votes # NoVotes

\* C4: a whitelist command for a user whom classify had blacklisted leaves the
\* user in the whitelist and off the blacklist, in its own write and in every
\* later one, and every later classify call for that user returns true.
C4_Override ==
  [][ /\ \A u \in overridden' :
            ~SaveInProgress' => (u \in WL(Persisted') /\ u \notin BL(Persisted'))
      /\ (ClassifyStep /\ Name \in overridden)
            => (cpc' = "branch" /\ hpa'.ret) ]_vars

\* C4 witness: classify has answered true for a user the command took off the
\* blacklist.
C4_Witness ==
  /\ cpc = "branch" /\ Name \in overridden /\ hpa.ret
  /\ Name \notin BL(Persisted)

\* C5: a comment by an ineligible author with an invalid text takes the
\* NotEligible branch, ends there, and leaves the store file untouched.
C5_EligibilityFirst ==
  [][ (BranchStep /\ ~hpa.ret /\ Content \notin VALID_VOTES)
        => /\ obs'.branch = "NotEligible"
           /\ obs'.eligible = "no"
           /\ cpc' = "idle"
           /\ file' = file
           /\ obs'.raised \/ (obs'.removed
                              /\ obs'.mail \in {"removed: not a known user", "failed"}) ]_vars

\* C5 witness: such a comment was removed with the not-eligible notice.
C5_Witness ==
  /\ obs.branch = "NotEligible" /\ obs.eligible = "no"
  /\ cmt.body = <<"m","a","y","b","e">>
  /\ obs.removed /\ obs.mail = "removed: not a known user"

\* C6: a committed vote write leaves exactly the new choice under the voter's
\* key, whatever was there before, and every other entry as it was loaded.
C6_LastWriteWins ==
  [][ (cpc = "vote_write" /\ file'.kind = "json")
        => /\ DOMAIN file'.data.votes = DOMAIN cloaded.data.votes \cup {Username}
           /\ file'.data.votes[Username] = Content
           /\ \A u \in DOMAIN cloaded.data.votes \ {Username} :
                 file'.data.votes[u] = cloaded.data.votes[u] ]_vars

\* C6 witness: a vote has just replaced a different earlier vote of the same
\* user.
C6_Witness ==
  /\ obs.saved /\ obs.replaced # <<>> /\ obs.replaced # Content
  /\ file.kind = "json" /\ Username \in DOMAIN file.data.votes
  /\ file.data.votes[Username] = Content

\* what each comment text of the model stands for once trimmed and lower-cased
\* (<<>>: not a vote)
ExpectedChoice(body) ==
  IF body = <<" ","Y","E","S"," ">> THEN <<"y","e","s">>
  ELSE IF body = <<"n","o">> THEN <<"n","o">>
  ELSE <<>>

\* C7: for an eligible author, a text that is a vote once trimmed and
\* lower-cased takes the VoteRecorded branch and is written as that choice;
\* any other text takes the InvalidVote branch and the store is not written.
C7_VoteValidation ==
  [][ /\ (BranchStep /\ hpa.ret /\ ExpectedChoice(cmt.body) # <<>>)
          => (obs'.branch = "VoteRecorded" /\ (cpc' = "vote" \/ obs'.raised))
      /\ (BranchStep /\ hpa.ret /\ ExpectedChoice(cmt.body) = <<>>)
          => (obs'.branch = "InvalidVote" /\ cpc' = "idle" /\ file' = file)
      /\ (cpc = "vote" /\ cpc' # "vote")
          => cdata'.votes[Username] = ExpectedChoice(cmt.body)
      /\ (cpc = "vote_write" /\ file'.kind = "json")
          => file'.data.votes[Username] = ExpectedChoice(cmt.body) ]_vars

\* C7 witness: the comment " YES " has been recorded as yes.
C7_Witness ==
  /\ obs.saved /\ cmt.body = <<" ","Y","E","S"," ">>
  /\ file.kind = "json" /\ Username \in DOMAIN file.data.votes
  /\ file.data.votes[Username] = <<"y","e","s">>

TrulyQualifies(it) == Lower(it.sub) = SUBREDDIT_NAME /\ it.created < CUTOFF_DATE

\* C9: on a cache miss an item of the target community qualifies exactly when
\* created_utc is strictly before the cutoff: an item the loop passed over
\* does not qualify, and the item that whitelisted the user does.
C9_StrictCutoff ==
  /\ (cpc \in {"hpa_comments", "hpa_posts"} /\ hpa.item # NoItem)
       => ~TrulyQualifies(hpa.item)
  /\ hpa.via \in {"comment", "post"} => TrulyQualifies(hpa.item)

\* C10: once the pipeline is done with a comment on the target post, the
\* comment has been removed, a comment of a deleted account included.
C10_AlwaysRemoved ==
  (cpc \in {"idle", "vote", "vote_save", "vote_write"} /\ cmt.submission = TargetPost)
    => obs.removed

\* a comment whose processing ended in one of the two rejections
Rejected == cpc = "idle" /\ obs.removed /\ obs.branch \in {"NotEligible", "InvalidVote"}

\* C11 as stated: every comment that ends in NotEligible or InvalidVote has
\* had its explanatory message sent to the author.
C11_AlwaysNotified ==
  Rejected => obs.mail \in {"removed: not a known user", "removed: invalid vote"}

\* C11: every comment that ends in NotEligible or InvalidVote has had
\* send_modmail called with the message of its branch; the message is sent
\* unless the forum call raises, which send_modmail logs without a retry.
C11_NotifyAttempted ==
  Rejected =>
    \/ obs.mail = "failed"
    \/ obs.mail = (IF obs.branch = "NotEligible" THEN "removed: not a known user"
                   ELSE "removed: invalid vote")

\* C11 witness: a comment of an eligible author with an invalid text was
\* removed and its author was sent the invalid-vote message.
C11_Witness ==
  /\ Rejected /\ obs.branch = "InvalidVote"
  /\ obs.mail = "removed: invalid vote"

\* C12: every key of the persisted votes is the lower-cased username, the
\* identity the whitelist and the blacklist use, and no two keys differ only
\* in letter case.
C12_NormalizedVoteKey ==
  /\ \A u \in DOMAIN Persisted.votes : u = Lower(u)
  /\ \A u, v \in DOMAIN Persisted.votes : Lower(u) = Lower(v) => u = v

\* the steps at which a worker leaves its `with user_data_lock` block
ReleaseC == lock = "cw" /\ lock' = "free"
ReleaseT == lock = "tw" /\ lock' = "free"

\* C13 as stated: at the moment a worker releases the lock after a classify
\* cache miss, a vote recording or a whitelist command, the store file holds
\* that transaction's result.
C13_DurableAtRelease ==
  [][ /\ ReleaseC => file' = JsonFile(cdata)
      /\ ReleaseT => file' = JsonFile(tdata) ]_vars

\* C13: a worker releases the lock only after save_user_data has returned: the
\* file then holds the transaction's result, or the dump raised and the file is
\* left truncated, or open() raised and the file is as the transaction loaded
\* it.
C13_SavedBeforeRelease ==
  [][ /\ ReleaseC =>
           \/ cpc \in {"hpa_write", "vote_write"}
                /\ file' \in {JsonFile(cdata), Unparseable}
           \/ cpc \in {"hpa_save", "vote_save"}
                /\ file' = file /\ load_user_data(file) = cloaded
      /\ ReleaseT =>
           \/ tpc = "wl_write" /\ file' \in {JsonFile(tdata), Unparseable}
           \/ tpc = "wl_save" /\ file' = file /\ load_user_data(file) = tloaded ]_vars

\* C13 witness: classify has just released the lock after a cache miss and the
\* file holds the user it listed.
C13_Witness ==
  /\ cpc = "branch" /\ hpa.hit = "miss" /\ lock = "free"
  /\ file.kind = "json" /\ Name \in WL(file.data) \cup BL(file.data)

\* C14: once `exit` has ended the process, whatever the comment worker was
\* doing, the store a later load returns is the store before the transaction
\* in flight (the committed one) or the store after it.
C14_CrashConsistent ==
  ~alive =>
    \/ Persisted = serial
    \/ InTxnC /\ Persisted = cdata

\* the steps of has_prior_activity's query at which a request raises
QueryRaises == cpc \in {"hpa_comments", "hpa_posts"} /\ hpa'.via = "error"

\* C15: when the activity query raises on a cache miss, classify leaves the
\* loop without a retry, with the user appended to the blacklist it loaded,
\* goes on to save and will return false, as for a user with no qualifying
\* history; a classify call for a user in the persisted blacklist returns
\* false with no request; and no committed write drops a name from the
\* blacklist it loaded, but the whitelist command for that name.
C15_ErrorBlacklists ==
  [][ /\ QueryRaises
          => /\ cpc' = "hpa_save" /\ ~hpa'.ret
             /\ cdata' = AddBlacklist(cloaded.data, Name)
      /\ (cpc = "hpa_posts" /\ hpa'.via = "nothing")
          => /\ cpc' = "hpa_save" /\ ~hpa'.ret
             /\ cdata' = AddBlacklist(cloaded.data, Name)
      /\ (cpc \in {"hpa_save", "hpa_write"} /\ cpc' = "branch") => hpa'.ret = hpa.ret
      /\ (ClassifyStep /\ Name \in BL(Persisted))
          => (cpc' = "branch" /\ ~hpa'.ret /\ hpa'.queried = {})
      /\ CommitC => BL(cloaded.data) \subseteq BL(file'.data)
      /\ CommitT => BL(tloaded.data) \ {tuser} \subseteq BL(file'.data) ]_vars

\* C15 witness: the submissions request raised after the comments were read,
\* and classify is about to save the user as blacklisted.
C15_Witness ==
  /\ cpc = "hpa_save" /\ hpa.via = "error" /\ ~hpa.ret
  /\ hpa.queried = {"comments", "submissions"}
  /\ Name \in BL(cdata)

\* a turn of either history loop that yields an item
YieldStep == cpc \in {"hpa_comments", "hpa_posts"} /\ hpa'.item # NoItem

\* C16: on a cache miss the comments are requested first and alone; the
\* submissions are requested only once the comment listing is exhausted with
\* no qualifying comment in it, so never after a qualifying comment; and the
\* first item that qualifies, in either listing, ends the loop with the user
\* appended to the whitelist, while an item that does not qualify changes
\* nothing.
C16_CommentsFirst ==
  [][ /\ (cpc = "classify" /\ cpc' = "hpa_comments") => hpa'.queried = {"comments"}
      /\ ("submissions" \in hpa'.queried /\ "submissions" \notin hpa.queried)
          => /\ cpc = "hpa_comments" /\ cpc' = "hpa_posts"
             /\ hpa.via = "none" /\ cdata' = cloaded.data
             /\ hpa.item = NoItem \/ ~Qualifies(hpa.item)
      /\ hpa'.via = "comment" => hpa'.queried = {"comments"}
      /\ cpc' = "hpa_posts" => hpa'.queried = {"comments", "submissions"}
      /\ (YieldStep /\ Qualifies(hpa'.item))
          => /\ cpc' = "hpa_save" /\ hpa'.ret
             /\ hpa'.via = (IF cpc = "hpa_comments" THEN "comment" ELSE "post")
             /\ cdata' = AddWhitelist(cloaded.data, Name)
      /\ (YieldStep /\ ~Qualifies(hpa'.item))
          => (cpc' = cpc /\ cdata' = cdata /\ hpa'.via = "none") ]_vars

\* C16 witness: the second comment of the listing qualified, after one that
\* did not; it has whitelisted the user and the submissions were never
\* requested.
C16_Witness ==
  /\ cpc = "hpa_save" /\ hpa.via = "comment" /\ hpa.ret /\ hpa.k = 1
  /\ hpa.queried = {"comments"} /\ Qualifies(hpa.item)
  /\ Name \in WL(cdata)

\* C17: once an error has reached the handler of line 139, or a failure was
\* caught inside send_modmail, the comment worker is back at the top of its
\* loop; and there, while the process runs, the worker does not hold the lock
\* and the next comment of the stream can be taken.
C17_LoopSurvives ==
  /\ obs.raised => cpc = "idle"
  /\ obs.mail = "failed" => cpc = "idle"
  /\ cpc = "idle" => lock # "cw"
  /\ (alive /\ cpc = "idle") => ENABLED NextComment

\* C17 witness: the removal of a comment by a whitelisted author raised after
\* votes had been stored, and the worker is back at the top of its loop.
C17_Witness ==
  /\ obs.raised /\ cmt.author.present /\ obs.eligible = "yes"
  /\ cpc = "idle" /\ alive /\ lock = "free"
  /\ Persisted.votes # NoVotes

\* C18: where no load and no save of the store fails, every vote the pipeline
\* writes is written together with a whitelist that holds the lower-cased
\* username of the voter, whatever the terminal worker did between the
\* classification and the vote.
C18_VoterWhitelisted ==
  [][ (cpc = "vote_write" /\ file' # file)
        => /\ file'.kind = "json"
           /\ Username \in DOMAIN file'.data.votes
           /\ Name \in WL(file'.data)
           /\ Name \notin BL(file'.data) ]_vars

\* C18 witness: a vote has been written for a user classify whitelisted, after
\* the terminal worker had whitelisted another user.
C18_Witness ==
  /\ disk = "reliable" /\ obs.saved /\ file.kind = "json"
  /\ Username \in DOMAIN file.data.votes
  /\ Name \in WL(file.data) /\ Len(file.data.whitelist) = 2

\* C19: the lock is held by the comment worker exactly while it is inside a
\* classify-miss or vote transaction and by the terminal worker exactly while
\* it is inside a whitelist command, so a worker about to acquire the lock
\* never holds it and a worker outside a transaction has released it; and
\* while the process runs the holder of the lock can always take its next
\* step.
C19_LockDiscipline ==
  /\ lock \in {"free", "cw", "tw"}
  /\ lock = "cw" <=> InTxnC
  /\ lock = "tw" <=> InTxnT
  /\ (alive /\ lock = "cw")
       => ENABLED (HpaComment \/ HpaPost \/ HpaSaveOpen \/ HpaSaveDump
                   \/ VoteSaveOpen \/ VoteSaveDump)
  /\ (alive /\ lock = "tw") => ENABLED (WlSaveOpen \/ WlSaveDump)

\* C19 witness: classify has returned through the error path of its locked
\* section, the lock is free again and the terminal worker, which was waiting
\* for it, can take it.
C19_Witness ==
  /\ cpc = "branch" /\ hpa.via = "error" /\ lock = "free"
  /\ tpc = "wl" /\ ENABLED WlEnter

\* the names a whitelist command of the model can carry
CommandNames == {Lower(n) : n \in AuthorNames}

\* the command for u has been carried out and the store on disk shows it
TookEffect(u) == tpc = "idle" /\ u \in WL(Persisted) /\ u \notin BL(Persisted)

====
